---------------------------- MODULE Spec2Model ----------------------------
(***************************************************************************)
(* Route engine of tony-rutas-capacitor: great-circle distance, nearest-   *)
(* neighbour ordering, 2-opt refinement, route distance estimate and the   *)
(* Google Maps directions link, in the variants found in the repository.  *)
(*                                                                         *)
(* Coordinates are whole degrees.  Real numbers are fixed point: a value v *)
(* in [-1,1] is the integer v * SCALE (sign and magnitude, as a float),    *)
(* and distances are whole metres (the code's kilometres * 1000).          *)
(***************************************************************************)
EXTENDS Integers, Sequences, FiniteSets, TLC

(* ------------------------------ bounds --------------------------------- *)
MaxPoints == 4
MaxStops == 4
MaxLinkStops == 11
MaxPackages == 2
MaxStored == 2
MaxCalls == 3
MaxMounts == 2

(* --------------------------- fixed point ------------------------------- *)
SCALE == 100000000
HALF == 10000

Abs(x) == IF x < 0 THEN -x ELSE x

\* |a| * |b| / SCALE for 0 <= a, b <= SCALE, without leaving 32 bits
MulAbs(a, b) ==
    (a \div HALF) * (b \div HALF)
  + ((a \div HALF) * (b % HALF) + (a % HALF) * (b \div HALF)) \div HALF
  + ((a % HALF) * (b % HALF)) \div SCALE

\* the product of two fixed-point numbers
Mul(a, b) ==
    IF (a < 0) = (b < 0) THEN MulAbs(Abs(a), Abs(b)) ELSE -MulAbs(Abs(a), Abs(b))

\* Math.sin(d / 2 degrees) * SCALE for d = 0 .. 12
SinHalfTable ==
    << 0, 872654, 1745241, 2617695, 3489950, 4361939, 5233596,
       6104854, 6975647, 7845910, 8715574, 9584575, 10452846 >>

\* Math.cos(d degrees) * SCALE for d = 0 .. 12
CosTable ==
    << 100000000, 99984770, 99939083, 99862953, 99756405, 99619470, 99452190,
       99254615, 99026807, 98768834, 98480775, 98162718, 97814760 >>

\* Math.sin(toRad(deg) / 2); sin(x) = sin(180 degrees - x) beyond 180 degrees
SinHalf(deg) ==
    LET d == IF deg > 180 THEN 360 - deg ELSE IF deg < -180 THEN -360 - deg ELSE deg
    IN IF d < 0 THEN -SinHalfTable[1 - d] ELSE SinHalfTable[d + 1]

\* Math.cos(toRad(deg))
Cos(deg) == CosTable[Abs(deg) + 1]

RECURSIVE ISqrtIter(_, _, _)
\* the largest r in lo .. hi with r * r <= n
ISqrtIter(n, lo, hi) ==
    IF lo >= hi THEN lo
    ELSE LET mid == (lo + hi + 1) \div 2
         IN IF mid * mid <= n THEN ISqrtIter(n, mid, hi) ELSE ISqrtIter(n, lo, mid - 1)

\* Math.sqrt of a fixed-point number in [0,1]
Sqrt(h) ==
    LET r == ISqrtIter(h, 0, HALF)
    IN r * HALF + ((h - r * r) * HALF) \div (2 * r + 1)

\* Math.asin of a fixed-point number (series to the 7th power)
Asin(x) ==
    LET x2 == Mul(x, x)
        x3 == Mul(x2, x)
        x5 == Mul(x3, x2)
        x7 == Mul(x5, x2)
    IN x + x3 \div 6 + (3 * x5) \div 40 + (15 * x7) \div 336

(* ----------------------------- distance -------------------------------- *)
R == 6371

\* haversine with the latitude of a taken for both cosines
haversineOneLatitude(a, b) ==
    LET sinDLat == SinHalf(b.lat - a.lat)
        sinDLon == SinHalf(b.lon - a.lon)
        h == Mul(sinDLat, sinDLat)
             + Mul(Mul(Mul(Cos(a.lat), Cos(a.lat)), sinDLon), sinDLon)
        as == Asin(Sqrt(h))
    IN (2 * R) * (as \div 100000) + ((2 * R) * (as % 100000)) \div 100000

\* haversine(a, b) in metres
haversine(a, b) ==
    LET dLat == b.lat - a.lat
        dLon == b.lon - a.lon
        la1 == a.lat
        la2 == b.lat
        sinDLat == SinHalf(dLat)
        sinDLon == SinHalf(dLon)
        h == Mul(sinDLat, sinDLat)
             + Mul(Mul(Mul(Cos(la1), Cos(la2)), sinDLon), sinDLon)
        as == Asin(Sqrt(h))
    IN (2 * R) * (as \div 100000) + ((2 * R) * (as % 100000)) \div 100000


(* ------------------------------ inputs --------------------------------- *)
\* a missing origin (useState(null))
null == [null |-> TRUE]

\* the k-th point of the grid: two latitudes, the longitudes eastwards
GridPoint(k) == [lat |-> k % 2, lon |-> k \div 2]

Points == {GridPoint(k) : k \in 0 .. MaxPoints - 1}

Origins == Points \cup {null}

\* a place a geocoder reply can name that is on no map: longitude 361
OutOfRange == [lat |-> 0, lon |-> 361]

\* the places east of the grid on its northern row
EastPlaces == {GridPoint(2 * i + 3) : i \in 1 .. MaxStored}

\* haversine over the places, held as a table (@@ makes TLC evaluate it once)
HavCache ==
    LET places == Points \cup EastPlaces \cup {OutOfRange}
    IN [a \in places, b \in places |-> haversine(a, b)] @@ << >>

LatLon(p) == [lat |-> p.lat, lon |-> p.lon]

\* a call of haversine on two objects carrying lat and lon
dist(a, b) == HavCache[LatLon(a), LatLon(b)]

\* the stops of a list of points; a stop's id is its place in the input
MkStops(f) == [i \in 1 .. Len(f) |-> [id |-> i, lat |-> f[i].lat, lon |-> f[i].lon]]

ShortLists == UNION {[1 .. n -> Points] : n \in 0 .. MaxStops}

\* a list of n stops laid over the grid, point after point
LongList(n, shift) == [i \in 1 .. n |-> GridPoint((i + shift) % MaxPoints)]

(* ---------------------------- array helpers ---------------------------- *)
Min(a, b) == IF a < b THEN a ELSE b
Max(a, b) == IF a > b THEN a ELSE b

\* Array.prototype.slice(start, end), indices from 0, end exclusive
slice(s, start, end) ==
    LET n == Len(s)
        b == IF start < 0 THEN Max(n + start, 0) ELSE Min(start, n)
        e == IF end < 0 THEN Max(n + end, 0) ELSE Min(end, n)
    IN SubSeq(s, b + 1, e)

\* Array.prototype.reverse
reverse(s) == [i \in 1 .. Len(s) |-> s[Len(s) + 1 - i]]

\* a splice that always takes the first element out
spliceFirst(s, idx) == SubSeq(s, 2, Len(s))

\* what remaining.splice(idx, 1) leaves in remaining (idx from 1)
splice1(s, idx) == SubSeq(s, 1, idx - 1) \o SubSeq(s, idx + 1, Len(s))

(* ------------------------- route distance ------------------------------ *)
RECURSIVE routeSum(_, _, _, _)
\* the for-of loop of routeDistance from position i on
routeSum(prev, stops, i, sum) ==
    IF i > Len(stops) THEN sum
    ELSE routeSum(stops[i], stops, i + 1, sum + dist(prev, stops[i]))

\* routeDistance(origin, stops), metres
routeDistance(origin, stops) ==
    IF origin = null \/ Len(stops) = 0 THEN 0
    ELSE routeSum(origin, stops, 1, 0)

(* ------------------------- nearest neighbour --------------------------- *)
Infinity == 2000000000

RECURSIVE ScanBestLast(_, _, _, _, _)
\* the scan with d <= bestDist: the last of the tied stops wins
ScanBestLast(current, remaining, i, bestIdx, bestDist) ==
    IF i > Len(remaining) THEN bestIdx
    ELSE LET d == dist(current, remaining[i])
         IN IF d <= bestDist
            THEN ScanBestLast(current, remaining, i + 1, i, d)
            ELSE ScanBestLast(current, remaining, i + 1, bestIdx, bestDist)

RECURSIVE ScanBest(_, _, _, _, _)
\* the inner for loop: the index (from 1) left in bestIdx
ScanBest(current, remaining, i, bestIdx, bestDist) ==
    IF i > Len(remaining) THEN bestIdx
    ELSE LET d == dist(current, remaining[i])
         IN IF d < bestDist
            THEN ScanBest(current, remaining, i + 1, i, d)
            ELSE ScanBest(current, remaining, i + 1, bestIdx, bestDist)

RECURSIVE nnLoop(_, _, _)
\* the while (remaining.length) loop
nnLoop(current, remaining, ordered) ==
    IF Len(remaining) = 0 THEN ordered
    ELSE LET bestIdx == ScanBest(current, remaining, 1, 1, Infinity)
             next == remaining[bestIdx]
         IN nnLoop(next, splice1(remaining, bestIdx), Append(ordered, next))

nearestNeighbor(origin, stops) == nnLoop(origin, stops, << >>)

(* ------------------------ 2-opt, whole route --------------------------- *)
\* best with best[i+1 .. k] reversed (i, k from 0)
newRoute(best, i, k) ==
    slice(best, 0, i + 1) \o reverse(slice(best, i + 1, k + 1)) \o slice(best, k + 1, Len(best))

\* the comparison turned round: the longer route is taken
longer(origin, route, best) == routeDistance(origin, route) > routeDistance(origin, best)

\* a route of the same length is taken too
notLonger(origin, route, best) == routeDistance(origin, route) <= routeDistance(origin, best)

\* routeDistance(origin, newRoute) + 1e-9 < baseDist(); 1e-9 km is under a metre
shorter(origin, route, best) == routeDistance(origin, route) < routeDistance(origin, best)

RECURSIVE kLoop(_, _, _, _)
\* the for (k) loop from k on; st holds best and improved
kLoop(origin, st, i, k) ==
    IF k >= Len(st.best) - 1 THEN st
    ELSE LET route == newRoute(st.best, i, k)
         IN IF shorter(origin, route, st.best)
            THEN kLoop(origin, [best |-> route, improved |-> TRUE], i, k + 1)
            ELSE kLoop(origin, st, i, k + 1)

RECURSIVE iLoop(_, _, _)
\* the for (i) loop from i on
iLoop(origin, st, i) ==
    IF i >= Len(st.best) - 2 THEN st
    ELSE iLoop(origin, kLoop(origin, st, i, i + 1), i + 1)

RECURSIVE whileImproved(_, _)
\* the while (improved) loop: a pass with improved = false, then the test
whileImproved(origin, st) ==
    IF st.improved
    THEN whileImproved(origin, iLoop(origin, [best |-> st.best, improved |-> FALSE], 0))
    ELSE st.best

twoOpt(origin, stops) ==
    IF Len(stops) < 3 THEN stops
    ELSE whileImproved(origin, [best |-> stops, improved |-> TRUE])

optimizeRoute(origin, stops) ==
    IF origin = null \/ Len(stops) < 2 THEN stops
    ELSE twoOpt(origin, nearestNeighbor(origin, stops))

(* ------------------------- 2-opt, edge delta --------------------------- *)
\* the two sums taken the other way round
edgeDeltaSwapped(a, b, c, d) == (dist(a, b) + dist(c, d)) - (dist(a, c) + dist(b, d))

\* (haversine(a,c) + haversine(b,d)) - (haversine(a,b) + haversine(c,d))
edgeDelta(a, b, c, d) == (dist(a, c) + dist(b, d)) - (dist(a, b) + dist(c, d))

\* pts after pts.splice(i+1, k-i, ...pts.slice(i+1, k+1).reverse())
spliceReversed(pts, i, k) ==
    slice(pts, 0, i + 1) \o reverse(slice(pts, i + 1, k + 1)) \o slice(pts, k + 1, Len(pts))

RECURSIVE kLoopDelta(_, _, _)
\* the for (k) loop from k on; st holds pts and improved; delta < -0.001 km
kLoopDelta(st, i, k) ==
    IF k >= Len(st.pts) - 1 THEN st
    ELSE IF edgeDelta(st.pts[i + 1], st.pts[i + 2], st.pts[k + 1], st.pts[k + 2]) < -1
    THEN kLoopDelta([pts |-> spliceReversed(st.pts, i, k), improved |-> TRUE], i, k + 1)
    ELSE kLoopDelta(st, i, k + 1)

RECURSIVE iLoopDelta(_, _)
\* the for (i) loop from i on
iLoopDelta(st, i) ==
    IF i >= Len(st.pts) - 2 THEN st
    ELSE iLoopDelta(kLoopDelta(st, i, i + 1), i + 1)

RECURSIVE whileImprovedDelta(_)
\* the while (improved) loop
whileImprovedDelta(st) ==
    IF st.improved
    THEN whileImprovedDelta(iLoopDelta([pts |-> st.pts, improved |-> FALSE], 1))
    ELSE st.pts

twoOptDelta(route, start) ==
    slice(whileImprovedDelta([pts |-> << start >> \o route, improved |-> TRUE]), 1, Len(route) + 1)

(* ------------------------ arrays and their copies ---------------------- *)
\* an array: the object it is ("arg" is the array the caller passed, "new"
\* one allocated during the call) and the elements it holds
given(s) == [obj |-> "arg", val |-> s]

\* no copy taken: the array itself under another name
sameArray(a) == a

\* a.slice(): a new array holding the elements of a
sliceAll(a) == [obj |-> "new", val |-> a.val]

\* the elements of array a once every element was spliced out of array b
afterSplicedOut(a, b) == IF b.obj = a.obj THEN << >> ELSE a.val

\* nearestNeighbor: remaining = stops.slice() is emptied by splice, and
\* ordered = [] is returned. What the caller's array holds afterwards, and
\* whether the array returned was allocated by the call
nearestNeighborFrame(stops) ==
    [arg |-> afterSplicedOut(given(stops), sliceAll(given(stops))), fresh |-> TRUE]

\* twoOpt(origin, stops) that returned out: best is stops.slice() until a
\* newRoute (built by slice and concat) replaces it; stops is only read
twoOptFrame(stops, out) ==
    [arg |-> stops, fresh |-> out # stops \/ sliceAll(given(stops)).obj = "new"]

\* twoOpt(route, start): pts = [start, ...route] is spliced, pts.slice(1) returned
twoOptDeltaFrame(route) == [arg |-> route, fresh |-> TRUE]

\* optimizeRoute: stops.slice() on the early return, else twoOpt(origin, nn)
optimizeRouteFrame(origin, stops) ==
    IF origin = null \/ Len(stops) < 2
    THEN [arg |-> stops, fresh |-> sliceAll(given(stops)).obj = "new"]
    ELSE [arg |-> nearestNeighborFrame(stops).arg, fresh |-> TRUE]

(* --------------------- the list handlers of the App -------------------- *)
\* items after optimizeOrder(): nearest neighbour when more than two items
optimizeOrder(originLL, items) ==
    IF originLL = null \/ Len(items) <= 2 THEN items
    ELSE nearestNeighbor(originLL, items)

RECURSIVE effectSum(_, _, _, _)
\* the loop of the distance effect; -1 when an item has a falsy lat or lon
effectSum(prev, items, i, km) ==
    IF i > Len(items) THEN km
    ELSE IF items[i].lat = 0 \/ items[i].lon = 0 THEN -1
    ELSE effectSum(items[i], items, i + 1, km + dist(prev, items[i]))

\* distanceKm set by the effect, in metres: Math.round(km * 10) / 10
distanceEffect(originLL, items) ==
    IF originLL = null \/ Len(items) = 0 THEN 0
    ELSE LET km == effectSum(originLL, items, 1, 0)
         IN IF km < 0 THEN 0 ELSE ((km + 50) \div 100) * 100

\* p.status === 'entregado'; an item without the field is not
IsDelivered(p) == "status" \in DOMAIN p /\ p.status = "entregado"

\* p.priority === 'alta'; an item without the field is not
IsAlta(p) == "priority" \in DOMAIN p /\ p.priority = "alta"

\* items.filter(p => p.lat && p.lon && p.status !== 'entregado')
geocodedPending(items) ==
    SelectSeq(items, LAMBDA p : p.lat # 0 /\ p.lon # 0 /\ ~IsDelivered(p))

\* pts.sort((a,b) => (b.priority==='alta') - (a.priority==='alta')): the
\* sort is stable, 'alta' first
sortAltaFirst(pts) ==
    SelectSeq(pts, IsAlta) \o SelectSeq(pts, LAMBDA p : ~IsAlta(p))

\* result after optimize() of the RoutePlanner
plannerOptimize(origin, items, result, highPriorityFirst) ==
    IF origin = null \/ origin.lat = 0 \/ origin.lon = 0 THEN result
    ELSE LET pts == geocodedPending(items)
             start == LatLon(origin)
             sorted == IF highPriorityFirst THEN sortAltaFirst(pts) ELSE pts
         IN IF Len(pts) = 0 THEN << >>
            ELSE twoOptDelta(nearestNeighbor(start, sorted), start)

(* ------------------------- Google Maps link ---------------------------- *)
MAX_WP == 9
MAX == 9

\* `${p.lat},${p.lon}`: the identity of the stop is not part of the text
param(p) == << p.lat, p.lon >>

\* list.slice(0, -1).map(p => `${p.lat},${p.lon}`), joined by "|" in the URL
waypointsOf(list) == [i \in 1 .. Len(slice(list, 0, -1)) |-> param(list[i])]

\* the directions URL by its query parameters
dirUrl(originParam, destParam, waypoints) ==
    [origin |-> originParam, destination |-> destParam, waypoints |-> waypoints]

\* a result that is no directions URL: "#", "", or a TypeError thrown
noUrl(text) == [none |-> text]

\* googleMapsDirLink of the route-optimizer App (truncates to MAX_WP stops)
googleMapsDirLink(origin, stops) ==
    LET list == slice(stops, 0, MAX_WP)
    IN IF origin = null \/ Len(list) = 0 THEN noUrl("#")
       ELSE dirUrl(param(origin), param(list[Len(list)]), waypointsOf(list))

\* googleMapsDirLink of the variant that lets a missing origin through
googleMapsDirLink_000(origin, stops) ==
    LET list == slice(stops, 0, MAX_WP)
    IN IF Len(list) = 0 THEN noUrl("#")
       ELSE dirUrl(IF origin = null THEN << >> ELSE param(origin),
                   param(list[Len(list)]), waypointsOf(list))

\* buildGoogleMapsLink of the Capacitor App (no truncation)
buildGoogleMapsLink(origin, stops) ==
    IF origin = null \/ Len(stops) = 0 THEN noUrl("")
    ELSE dirUrl(param(origin), param(stops[Len(stops)]), waypointsOf(stops))

\* googleMapsDirLink without guards: reading .lat of null or undefined throws
googleMapsDirLink_004(origin, stops) ==
    IF origin = null \/ Len(stops) = 0 THEN noUrl("TypeError")
    ELSE dirUrl(param(origin), param(stops[Len(stops)]), waypointsOf(stops))

\* the URL opened by openInGoogleMaps of the overlay App, if any
openInGoogleMaps_003(originLL, items) ==
    IF originLL = null \/ Len(items) = 0 THEN noUrl("not opened")
    ELSE googleMapsDirLink_004(originLL, slice(items, 0, Min(Len(items), MAX)))

(* ------------------------------- state --------------------------------- *)
VARIABLES
    origin,   \* the origin: a point, or null
    stops,    \* the list of stops (packages, items) held by the caller
    op,       \* the operation that has run, "init" before any
    arg,      \* the list the operation was given
    ret,      \* the list the operation returned (or stored)
    km,       \* the distance estimate, metres
    link,     \* the link built
    fresh,    \* whether the list returned is an array allocated by the call
    \* the 2-opt refiner, step by step
    pc,       \* where the refiner is: "idle", "scan", "returned"
    best,     \* best (pts without its start)
    scanI,    \* i
    scanK,    \* k
    improved, \* improved
    moved,    \* whether a reversal was accepted in the running pass
    scannedOn, \* whether a pair was evaluated in that pass after the reversal
    \* the App
    prevOrder,  \* the order saved by optimize, or null
    pkgName,    \* the name field of the form
    pkgAddress, \* the address field of the form
    loading,    \* loading
    msg,        \* msg
    qrOpen,     \* whether the scanner modal is shown
    scanner,    \* the scanner, with the form values in the closure it calls, or null
    timer,      \* the form values in the closure of the pending timeout, or null
    geocoding,  \* the addPackage calls that await the geocoder
    added,      \* the packages added so far (uid)
    scanned,    \* the name and address parsed by the scan whose timeout is pending, or null
    \* the package manager (part_004)
    useHighPriorityFirst, \* useHighPriorityFirst
    onDetect,   \* the items in the closure the running Scanner calls, or null
    geocodeRun, \* the running geocodeMissing: its items, toGeocode and i, or null
    \* the scanner of the modal, call by call
    useBack,    \* useBack
    html5QrRef, \* html5QrRef.current: the index of an instance, 0 for null
    instances,  \* the Html5Qrcode instances created so far
    calls,      \* the startScanner and closeQR calls so far, each with its closure and position
    opening,    \* the openQR calls that await the camera permission, each with its closure
    \* QROverlay
    mounted,    \* whether the overlay is mounted
    effects,    \* the runs of its effect, one a mount: disposed, stream and position
    lateResult  \* whether onResult was called by the run of an overlay since unmounted

engineVars == << op, arg, ret, km, link, fresh >>

refinerVars == << pc, best, scanI, scanK, improved, moved, scannedOn >>

appVars == << prevOrder, pkgName, pkgAddress, loading, msg, qrOpen, scanner, timer,
              geocoding, added, scanned >>

widgetVars == << useHighPriorityFirst, onDetect, geocodeRun,
                 useBack, html5QrRef, instances, calls, opening,
                 mounted, effects, lateResult >>

vars == << origin, stops, engineVars, refinerVars, appVars, widgetVars >>

\* the refiner not running
RefinerIdle ==
    /\ pc = "idle"
    /\ best = << >>
    /\ scanI = 0
    /\ scanK = 0
    /\ improved = FALSE
    /\ moved = FALSE
    /\ scannedOn = FALSE

\* the App as it is mounted, with nothing typed and nothing pending
AppIdle ==
    /\ prevOrder = null
    /\ pkgName = ""
    /\ pkgAddress = ""
    /\ loading = FALSE
    /\ msg = ""
    /\ qrOpen = FALSE
    /\ scanner = null
    /\ timer = null
    /\ geocoding = << >>
    /\ added = 0
    /\ scanned = null

\* the package manager, the scanner calls and the overlay before any use
WidgetsIdle ==
    /\ useHighPriorityFirst = TRUE
    /\ onDetect = null
    /\ geocodeRun = null
    /\ useBack = TRUE
    /\ html5QrRef = 0
    /\ instances = << >>
    /\ calls = << >>
    /\ opening = << >>
    /\ mounted = FALSE
    /\ effects = << >>
    /\ lateResult = FALSE

Init ==
    /\ origin \in Origins
    /\ stops \in {MkStops(f) : f \in ShortLists}
                 \cup {MkStops(LongList(n, sh)) : n \in MaxStops + 1 .. MaxLinkStops, sh \in 0 .. 1}
    /\ op = "init"
    /\ arg = << >>
    /\ ret = << >>
    /\ km = 0
    /\ link = noUrl("init")
    /\ fresh = FALSE
    /\ RefinerIdle
    /\ AppIdle
    /\ WidgetsIdle

\* Each action is one call on the inputs drawn by Init: op names the call,
\* arg is the list it received, and ret, km or link is what it produced.

\* nearestNeighbor(origin, stops); the callers pass a defined origin
CallNearestNeighbor ==
    /\ op = "init"
    /\ origin # null
    /\ op' = "nearestNeighbor"
    /\ arg' = stops
    /\ ret' = nearestNeighbor(origin, stops)
    /\ stops' = nearestNeighborFrame(stops).arg
    /\ fresh' = nearestNeighborFrame(stops).fresh
    /\ UNCHANGED << origin, km, link >>
    /\ UNCHANGED << refinerVars, appVars >>
    /\ UNCHANGED widgetVars

\* twoOpt(origin, stops), whole-route comparison
CallTwoOpt ==
    /\ op = "init"
    /\ origin # null
    /\ op' = "twoOpt"
    /\ arg' = stops
    /\ ret' = twoOpt(origin, stops)
    /\ stops' = twoOptFrame(stops, ret').arg
    /\ fresh' = twoOptFrame(stops, ret').fresh
    /\ UNCHANGED << origin, km, link >>
    /\ UNCHANGED << refinerVars, appVars >>
    /\ UNCHANGED widgetVars

\* twoOpt(route, start), edge-delta comparison
CallTwoOptDelta ==
    /\ op = "init"
    /\ origin # null
    /\ op' = "twoOptDelta"
    /\ arg' = stops
    /\ ret' = twoOptDelta(stops, LatLon(origin))
    /\ stops' = twoOptDeltaFrame(stops).arg
    /\ fresh' = twoOptDeltaFrame(stops).fresh
    /\ UNCHANGED << origin, km, link >>
    /\ UNCHANGED << refinerVars, appVars >>
    /\ UNCHANGED widgetVars

\* optimizeRoute(origin, stops)
CallOptimizeRoute ==
    /\ op = "init"
    /\ op' = "optimizeRoute"
    /\ arg' = stops
    /\ ret' = optimizeRoute(origin, stops)
    /\ stops' = optimizeRouteFrame(origin, stops).arg
    /\ fresh' = optimizeRouteFrame(origin, stops).fresh
    /\ UNCHANGED << origin, km, link >>
    /\ UNCHANGED << refinerVars, appVars >>
    /\ UNCHANGED widgetVars

\* nn = nearestNeighbor(start, sorted); opt = twoOpt(nn, start)
CallPlannerRoute ==
    /\ op = "init"
    /\ origin # null
    /\ op' = "plannerRoute"
    /\ arg' = stops
    /\ ret' = twoOptDelta(nearestNeighbor(LatLon(origin), stops), LatLon(origin))
    /\ stops' = nearestNeighborFrame(stops).arg
    /\ fresh' = twoOptDeltaFrame(ret').fresh
    /\ UNCHANGED << origin, km, link >>
    /\ UNCHANGED << refinerVars, appVars >>
    /\ UNCHANGED widgetVars

\* optimizeOrder(): setItems(out)
OptimizeOrder ==
    /\ op = "init"
    /\ op' = "optimizeOrder"
    /\ arg' = stops
    /\ stops' = optimizeOrder(origin, stops)
    /\ ret' = stops'
    /\ UNCHANGED << origin, km, link, fresh >>
    /\ UNCHANGED << refinerVars, appVars >>
    /\ UNCHANGED widgetVars

\* optimize() of the RoutePlanner: setResult(opt), or the alert
PlannerOptimize ==
    /\ op = "init"
    /\ op' = "plannerOptimize"
    /\ arg' = stops
    /\ ret' = plannerOptimize(origin, stops, ret, useHighPriorityFirst)
    /\ UNCHANGED << origin, stops, km, link, fresh >>
    /\ UNCHANGED << refinerVars, appVars >>
    /\ UNCHANGED widgetVars

\* haversine(origin, stops[0])
CallHaversine ==
    /\ op = "init"
    /\ origin # null
    /\ Len(stops) > 0
    /\ op' = "haversine"
    /\ arg' = stops
    /\ km' = haversine(origin, stops[1])
    /\ UNCHANGED << origin, stops, ret, link, fresh >>
    /\ UNCHANGED << refinerVars, appVars >>
    /\ UNCHANGED widgetVars

\* routeDistance(origin, stops)
CallRouteDistance ==
    /\ op = "init"
    /\ op' = "routeDistance"
    /\ arg' = stops
    /\ km' = routeDistance(origin, stops)
    /\ UNCHANGED << origin, stops, ret, link, fresh >>
    /\ UNCHANGED << refinerVars, appVars >>
    /\ UNCHANGED widgetVars

\* the effect that sets distanceKm from originLL and items
DistanceEffect ==
    /\ op = "init"
    /\ op' = "distanceEffect"
    /\ arg' = stops
    /\ km' = distanceEffect(origin, stops)
    /\ UNCHANGED << origin, stops, ret, link, fresh >>
    /\ UNCHANGED << refinerVars, appVars >>
    /\ UNCHANGED widgetVars

\* googleMapsDirLink(origin, packages), MAX_WP stops at most
CallGoogleMapsDirLink ==
    /\ op = "init"
    /\ op' = "googleMapsDirLink"
    /\ arg' = stops
    /\ link' = googleMapsDirLink(origin, stops)
    /\ UNCHANGED << origin, stops, ret, km, fresh >>
    /\ UNCHANGED << refinerVars, appVars >>
    /\ UNCHANGED widgetVars

\* googleMapsDirLink(origin, packages) of the variant without origin guard
CallGoogleMapsDirLink_000 ==
    /\ op = "init"
    /\ op' = "googleMapsDirLink_000"
    /\ arg' = stops
    /\ link' = googleMapsDirLink_000(origin, stops)
    /\ UNCHANGED << origin, stops, ret, km, fresh >>
    /\ UNCHANGED << refinerVars, appVars >>
    /\ UNCHANGED widgetVars

\* buildGoogleMapsLink(origin, packages)
CallBuildGoogleMapsLink ==
    /\ op = "init"
    /\ op' = "buildGoogleMapsLink"
    /\ arg' = stops
    /\ link' = buildGoogleMapsLink(origin, stops)
    /\ UNCHANGED << origin, stops, ret, km, fresh >>
    /\ UNCHANGED << refinerVars, appVars >>
    /\ UNCHANGED widgetVars

\* googleMapsDirLink(origin, result) of the planner
CallGoogleMapsDirLink_004 ==
    /\ op = "init"
    /\ op' = "googleMapsDirLink_004"
    /\ arg' = stops
    /\ link' = googleMapsDirLink_004(origin, stops)
    /\ UNCHANGED << origin, stops, ret, km, fresh >>
    /\ UNCHANGED << refinerVars, appVars >>
    /\ UNCHANGED widgetVars

\* openInGoogleMaps() of the overlay App: window.open(url)
OpenInGoogleMaps_003 ==
    /\ op = "init"
    /\ op' = "openInGoogleMaps_003"
    /\ arg' = stops
    /\ link' = openInGoogleMaps_003(origin, stops)
    /\ UNCHANGED << origin, stops, ret, km, fresh >>
    /\ UNCHANGED << refinerVars, appVars >>
    /\ UNCHANGED widgetVars

Next ==
    \/ CallNearestNeighbor
    \/ CallTwoOpt
    \/ CallTwoOptDelta
    \/ CallOptimizeRoute
    \/ CallPlannerRoute
    \/ OptimizeOrder
    \/ PlannerOptimize
    \/ CallHaversine
    \/ CallRouteDistance
    \/ DistanceEffect
    \/ CallGoogleMapsDirLink
    \/ CallGoogleMapsDirLink_000
    \/ CallBuildGoogleMapsLink
    \/ CallGoogleMapsDirLink_004
    \/ OpenInGoogleMaps_003

Spec == Init /\ [][Next]_vars

(* -------------------- the 2-opt refiner, step by step ------------------ *)
RefinerInit ==
    /\ origin \in Points
    /\ stops \in {MkStops(f) : f \in ShortLists}
    /\ op = "init"
    /\ arg = << >>
    /\ ret = << >>
    /\ km = 0
    /\ link = noUrl("init")
    /\ fresh = FALSE
    /\ RefinerIdle
    /\ AppIdle
    /\ WidgetsIdle

\* twoOpt(origin, stops) is called: stops.slice() is returned for less than
\* 3 stops, else best = stops.slice(), improved = true
TwoOptCall ==
    /\ pc = "idle"
    /\ op' = "twoOpt"
    /\ arg' = stops
    /\ IF Len(stops) < 3
       THEN /\ pc' = "returned"
            /\ ret' = stops
            /\ fresh' = TRUE
            /\ UNCHANGED << best, improved >>
       ELSE /\ best' = stops
            /\ improved' = TRUE
            /\ pc' = "while"
            /\ UNCHANGED << ret, fresh >>
    /\ UNCHANGED << origin, stops, km, link, scanI, scanK, moved, scannedOn >>
    /\ UNCHANGED appVars
    /\ UNCHANGED widgetVars

\* while (improved): a new pass from i = 0, or return best
TwoOptWhile ==
    /\ pc = "while"
    /\ op = "twoOpt"
    /\ IF improved
       THEN /\ improved' = FALSE
            /\ scanI' = 0
            /\ pc' = "forI"
            /\ moved' = FALSE
            /\ scannedOn' = FALSE
            /\ UNCHANGED << ret, fresh >>
       ELSE /\ pc' = "returned"
            /\ ret' = best
            /\ fresh' = TRUE
            /\ UNCHANGED << improved, scanI, moved, scannedOn >>
    /\ UNCHANGED << origin, stops, op, arg, km, link, best, scanK >>
    /\ UNCHANGED appVars
    /\ UNCHANGED widgetVars

\* for (let i = 0; i < best.length - 2; i++)
TwoOptForI ==
    /\ pc = "forI"
    /\ op = "twoOpt"
    /\ IF scanI < Len(best) - 2
       THEN /\ scanK' = scanI + 1
            /\ pc' = "forK"
       ELSE /\ pc' = "while"
            /\ UNCHANGED scanK
    /\ UNCHANGED << origin, stops, engineVars, best, scanI, improved, moved, scannedOn >>
    /\ UNCHANGED appVars
    /\ UNCHANGED widgetVars

\* for (let k = i + 1; k < best.length - 1; k++): the pair (i, k) is
\* evaluated, or the loop is left and i++
TwoOptForK ==
    /\ pc = "forK"
    /\ op = "twoOpt"
    /\ IF scanK < Len(best) - 1
       THEN /\ IF shorter(origin, newRoute(best, scanI, scanK), best)
               THEN /\ best' = newRoute(best, scanI, scanK)
                    /\ improved' = TRUE
                    /\ moved' = TRUE
               ELSE UNCHANGED << best, improved, moved >>
            /\ scannedOn' = (scannedOn \/ moved)
            /\ scanK' = scanK + 1
            /\ UNCHANGED << pc, scanI >>
       ELSE /\ scanI' = scanI + 1
            /\ pc' = "forI"
            /\ UNCHANGED << best, improved, moved, scannedOn, scanK >>
    /\ UNCHANGED << origin, stops, engineVars >>
    /\ UNCHANGED appVars
    /\ UNCHANGED widgetVars

\* twoOpt(route, start) is called: pts = [start, ...route], improved = true
TwoOptDeltaCall ==
    /\ pc = "idle"
    /\ op' = "twoOptDelta"
    /\ arg' = stops
    /\ best' = << LatLon(origin) >> \o stops
    /\ improved' = TRUE
    /\ pc' = "while"
    /\ UNCHANGED << origin, stops, ret, km, link, fresh, scanI, scanK, moved, scannedOn >>
    /\ UNCHANGED appVars
    /\ UNCHANGED widgetVars

\* while (improved): a new pass from i = 1, or return pts.slice(1)
TwoOptDeltaWhile ==
    /\ pc = "while"
    /\ op = "twoOptDelta"
    /\ IF improved
       THEN /\ improved' = FALSE
            /\ scanI' = 1
            /\ pc' = "forI"
            /\ moved' = FALSE
            /\ scannedOn' = FALSE
            /\ UNCHANGED << ret, fresh >>
       ELSE /\ pc' = "returned"
            /\ ret' = slice(best, 1, Len(best))
            /\ fresh' = TRUE
            /\ UNCHANGED << improved, scanI, moved, scannedOn >>
    /\ UNCHANGED << origin, stops, op, arg, km, link, best, scanK >>
    /\ UNCHANGED appVars
    /\ UNCHANGED widgetVars

\* for (let i = 1; i < pts.length - 2; i++)
TwoOptDeltaForI ==
    /\ pc = "forI"
    /\ op = "twoOptDelta"
    /\ IF scanI < Len(best) - 2
       THEN /\ scanK' = scanI + 1
            /\ pc' = "forK"
       ELSE /\ pc' = "while"
            /\ UNCHANGED scanK
    /\ UNCHANGED << origin, stops, engineVars, best, scanI, improved, moved, scannedOn >>
    /\ UNCHANGED appVars
    /\ UNCHANGED widgetVars

\* for (let k = i + 1; k < pts.length - 1; k++): delta of the pair (i, k),
\* or the loop is left and i++
TwoOptDeltaForK ==
    /\ pc = "forK"
    /\ op = "twoOptDelta"
    /\ IF scanK < Len(best) - 1
       THEN /\ IF edgeDelta(best[scanI + 1], best[scanI + 2],
                            best[scanK + 1], best[scanK + 2]) < -1
               THEN /\ best' = spliceReversed(best, scanI, scanK)
                    /\ improved' = TRUE
                    /\ moved' = TRUE
               ELSE UNCHANGED << best, improved, moved >>
            /\ scannedOn' = (scannedOn \/ moved)
            /\ scanK' = scanK + 1
            /\ UNCHANGED << pc, scanI >>
       ELSE /\ scanI' = scanI + 1
            /\ pc' = "forI"
            /\ UNCHANGED << best, improved, moved, scannedOn, scanK >>
    /\ UNCHANGED << origin, stops, engineVars >>
    /\ UNCHANGED appVars
    /\ UNCHANGED widgetVars

RefinerNext ==
    \/ TwoOptCall
    \/ TwoOptWhile
    \/ TwoOptForI
    \/ TwoOptForK
    \/ TwoOptDeltaCall
    \/ TwoOptDeltaWhile
    \/ TwoOptDeltaForI
    \/ TwoOptDeltaForK

\* the call runs on: JavaScript runs a synchronous function to its end
RefinerSpec == RefinerInit /\ [][RefinerNext]_vars /\ WF_vars(RefinerNext)

(* ------------------------------ the App -------------------------------- *)
\* what the user can have typed in the name and the address field
FormNames == {"Caja"}
FormAddresses == {" ", "Calle 1", "Calle 2"}

\* String.prototype.trim on the strings of this model
trim(str) == IF str = " " THEN "" ELSE str

\* the texts a QR code can hold, by what the parser finds in them
Payloads ==
    { [json |-> TRUE, name |-> "Sobre", address |-> "Calle 2", text |-> ""],
      [json |-> TRUE, name |-> "", address |-> "Calle 2", text |-> ""],
      [json |-> TRUE, name |-> "Sobre", address |-> "", text |-> ""],
      [json |-> FALSE, name |-> "", address |-> "", text |-> "Calle 2"],
      [json |-> FALSE, name |-> "", address |-> "", text |-> ""] }

\* something thrown instead of a value returned
thrown(message) == [thrown |-> message]

IsThrown(v) == "thrown" \in DOMAIN v

\* parseQrPayload(raw): the JSON object with an address, else a text of
\* several words as the address; a JSON text without address has no blank
\* and no separator, so no later rule takes it
parseQrPayload(raw) ==
    IF ~raw.json /\ trim(raw.text) = "" THEN thrown("QR vacio")
    ELSE IF raw.json /\ trim(raw.address) # ""
    THEN [name |-> IF trim(raw.name) = "" THEN "(QR)" ELSE trim(raw.name),
          address |-> trim(raw.address)]
    ELSE IF ~raw.json
    THEN [name |-> "(QR)", address |-> trim(raw.text)]
    ELSE thrown("El QR no contiene direccion")

\* the place Nominatim knows for an address
Place(q) == IF q = "Calle 1" THEN GridPoint(1) ELSE GridPoint(2)

\* the replies of the geocoding service to a search for q: an HTTP error, no
\* result, the place, or a hit whose longitude is on no map
Replies(q) ==
    { [ok |-> FALSE, data |-> << >>],
      [ok |-> TRUE, data |-> << >>],
      [ok |-> TRUE, data |-> << [lat |-> Place(q).lat, lon |-> Place(q).lon, display_name |-> q] >>],
      [ok |-> TRUE, data |-> << [lat |-> OutOfRange.lat, lon |-> OutOfRange.lon, display_name |-> q] >>] }

\* geocodeAddress(q) once the service has replied res; parseFloat of the
\* number the reply holds is that number
geocodeAddress(res) ==
    IF ~res.ok THEN thrown("Error geocoding")
    ELSE IF Len(res.data) = 0 THEN thrown("Sin resultados")
    ELSE LET hit == res.data[1]
         IN [lat |-> hit.lat, lon |-> hit.lon, displayName |-> hit.display_name]

\* the item addPackage builds from the form values of its closure and the hit
newItem(id, form, hit) ==
    [id |-> id,
     name |-> IF trim(form.name) = "" THEN "(Sin nombre)" ELSE trim(form.name),
     address |-> trim(form.address),
     lat |-> hit.lat, lon |-> hit.lon,
     displayName |-> hit.displayName]

\* the optimized order saved in place of the order found
savedOptimized(packages, optimized) == optimized

\* the order optimize() saves for undoOptimize: packages.slice()
savedOrder(packages, optimized) == packages

\* the origin the App finds in its stored data: none, or a point
AppOrigins == {null, GridPoint(3)}

\* the App after mount, with no packages
AppInit ==
    /\ origin \in AppOrigins
    /\ stops = << >>
    /\ op = "init"
    /\ arg = << >>
    /\ ret = << >>
    /\ km = 0
    /\ link = noUrl("init")
    /\ fresh = FALSE
    /\ RefinerIdle
    /\ AppIdle
    /\ WidgetsIdle

\* onChange of the name field (the modal, when open, covers the page)
TypeName ==
    /\ ~qrOpen
    /\ \E name \in FormNames : pkgName' = name
    /\ op' = "handler"
    /\ arg' = << >>
    /\ ret' = << >>
    /\ UNCHANGED << origin, stops, km, link, fresh >>
    /\ UNCHANGED << prevOrder, pkgAddress, loading, msg, qrOpen, scanner, timer,
                    geocoding, added, scanned >>
    /\ UNCHANGED refinerVars
    /\ UNCHANGED widgetVars

\* onChange of the address field
TypeAddress ==
    /\ ~qrOpen
    /\ \E address \in FormAddresses : pkgAddress' = address
    /\ op' = "handler"
    /\ arg' = << >>
    /\ ret' = << >>
    /\ UNCHANGED << origin, stops, km, link, fresh >>
    /\ UNCHANGED << prevOrder, pkgName, loading, msg, qrOpen, scanner, timer,
                    geocoding, added, scanned >>
    /\ UNCHANGED refinerVars
    /\ UNCHANGED widgetVars

\* addPackage() from the button, up to its await: the form values are those
\* of the render on screen
AddPackage ==
    /\ ~qrOpen
    /\ ~loading
    /\ added + Len(geocoding) < MaxPackages
    /\ op' = "handler"
    /\ arg' = << >>
    /\ ret' = << >>
    /\ IF trim(pkgAddress) = ""
       THEN /\ msg' = "Escribe la direccion."
            /\ UNCHANGED << loading, geocoding >>
       ELSE /\ loading' = TRUE
            /\ msg' = ""
            /\ geocoding' = Append(geocoding, [name |-> pkgName, address |-> pkgAddress])
    /\ UNCHANGED << origin, stops, km, link, fresh >>
    /\ UNCHANGED << prevOrder, pkgName, pkgAddress, qrOpen, scanner, timer, added, scanned >>
    /\ UNCHANGED refinerVars
    /\ UNCHANGED widgetVars

\* addPackage() from the timeout of onScanSuccess, up to its await: the form
\* values are those of the render whose onScanSuccess the scanner was given
TimerAddPackage ==
    /\ timer # null
    /\ added + Len(geocoding) < MaxPackages
    /\ op' = "handler"
    /\ arg' = << >>
    /\ ret' = << >>
    /\ timer' = null
    /\ IF trim(timer.address) = ""
       THEN /\ msg' = "Escribe la direccion."
            /\ UNCHANGED << loading, geocoding >>
       ELSE /\ loading' = TRUE
            /\ msg' = ""
            /\ geocoding' = Append(geocoding, [name |-> timer.name, address |-> timer.address])
    /\ scanned' = null
    /\ UNCHANGED << origin, stops, km, link, fresh >>
    /\ UNCHANGED << prevOrder, pkgName, pkgAddress, qrOpen, scanner, added >>
    /\ UNCHANGED refinerVars
    /\ UNCHANGED widgetVars

\* addPackage() after its await: the geocoder has replied to one of the calls
GeocodeReplies ==
    /\ \E n \in 1 .. Len(geocoding) : \E res \in Replies(trim(geocoding[n].address)) :
          /\ geocoding' = splice1(geocoding, n)
          /\ IF IsThrown(geocodeAddress(res))
             THEN /\ msg' = "No pude localizar esa direccion."
                  /\ UNCHANGED << stops, pkgName, pkgAddress, added >>
             ELSE /\ stops' = Append(stops, newItem(added + 1, geocoding[n], geocodeAddress(res)))
                  /\ added' = added + 1
                  /\ pkgName' = ""
                  /\ pkgAddress' = ""
                  /\ msg' = "Paquete anadido"
    /\ loading' = FALSE
    /\ op' = "handler"
    /\ arg' = << >>
    /\ ret' = << >>
    /\ UNCHANGED << origin, km, link, fresh >>
    /\ UNCHANGED << prevOrder, qrOpen, scanner, timer, scanned >>
    /\ UNCHANGED refinerVars
    /\ UNCHANGED widgetVars

\* removePackage(id)
RemovePackage ==
    /\ ~qrOpen
    /\ \E n \in 1 .. Len(stops) :
          stops' = SelectSeq(stops, LAMBDA p : p.id # stops[n].id)
    /\ op' = "handler"
    /\ arg' = << >>
    /\ ret' = << >>
    /\ UNCHANGED << origin, km, link, fresh >>
    /\ UNCHANGED appVars
    /\ UNCHANGED refinerVars
    /\ UNCHANGED widgetVars

\* clearAll(), confirmed (the button is disabled on an empty list)
ClearAll ==
    /\ ~qrOpen
    /\ Len(stops) > 0
    /\ stops' = << >>
    /\ op' = "handler"
    /\ arg' = << >>
    /\ ret' = << >>
    /\ UNCHANGED << origin, km, link, fresh >>
    /\ UNCHANGED appVars
    /\ UNCHANGED refinerVars
    /\ UNCHANGED widgetVars

\* optimize(); the button is disabled where the handler would alert
Optimize ==
    /\ ~qrOpen
    /\ origin # null
    /\ Len(stops) >= 2
    /\ stops' = optimizeRoute(origin, stops)
    /\ prevOrder' = savedOrder(stops, stops')
    /\ msg' = "Ruta optimizada"
    /\ op' = "optimize"
    /\ arg' = stops
    /\ ret' = stops'
    /\ UNCHANGED << origin, km, link, fresh >>
    /\ UNCHANGED << pkgName, pkgAddress, loading, qrOpen, scanner, timer, geocoding,
                    added, scanned >>
    /\ UNCHANGED refinerVars
    /\ UNCHANGED widgetVars

\* undoOptimize(); the button is disabled without a saved order. op tells
\* whether optimize was the handler just before; arg and ret keep the
\* packages optimize found and the order it gave them
UndoOptimize ==
    /\ ~qrOpen
    /\ prevOrder # null
    /\ stops' = prevOrder
    /\ prevOrder' = null
    /\ msg' = "Orden restaurado."
    /\ op' = IF op = "optimize" THEN "optimize;undoOptimize" ELSE "undoOptimize"
    /\ arg' = IF op = "optimize" THEN arg ELSE << >>
    /\ ret' = IF op = "optimize" THEN ret ELSE << >>
    /\ UNCHANGED << origin, km, link, fresh >>
    /\ UNCHANGED << pkgName, pkgAddress, loading, qrOpen, scanner, timer, geocoding,
                    added, scanned >>
    /\ UNCHANGED refinerVars
    /\ UNCHANGED widgetVars

\* openQR() with the camera permitted: the modal opens and startScanner of
\* this render is handed to requestAnimationFrame
OpenQR ==
    /\ ~qrOpen
    /\ scanner = null
    /\ timer = null
    /\ qrOpen' = TRUE
    /\ scanner' = [running |-> FALSE, name |-> pkgName, address |-> pkgAddress]
    /\ op' = "handler"
    /\ arg' = << >>
    /\ ret' = << >>
    /\ UNCHANGED << origin, stops, km, link, fresh >>
    /\ UNCHANGED << prevOrder, pkgName, pkgAddress, loading, msg, timer, geocoding,
                    added, scanned >>
    /\ UNCHANGED refinerVars
    /\ UNCHANGED widgetVars

\* startScanner(): nothing without the region of the modal, else the scanner
\* runs with onScanSuccess of the same render
StartScanner ==
    /\ scanner # null
    /\ ~scanner.running
    /\ scanner' = IF qrOpen THEN [scanner EXCEPT !.running = TRUE] ELSE null
    /\ op' = "handler"
    /\ arg' = << >>
    /\ ret' = << >>
    /\ UNCHANGED << origin, stops, km, link, fresh >>
    /\ UNCHANGED << prevOrder, pkgName, pkgAddress, loading, msg, qrOpen, timer,
                    geocoding, added, scanned >>
    /\ UNCHANGED refinerVars
    /\ UNCHANGED widgetVars

\* closeQR() from the button of the modal: a running scanner is stopped
CloseQR ==
    /\ qrOpen
    /\ qrOpen' = FALSE
    /\ scanner' = IF scanner # null /\ scanner.running THEN null ELSE scanner
    /\ op' = "handler"
    /\ arg' = << >>
    /\ ret' = << >>
    /\ UNCHANGED << origin, stops, km, link, fresh >>
    /\ UNCHANGED << prevOrder, pkgName, pkgAddress, loading, msg, timer, geocoding,
                    added, scanned >>
    /\ UNCHANGED refinerVars
    /\ UNCHANGED widgetVars

\* onScanSuccess(decodedText): an alert for a text without address, else
\* closeQR(), the two fields set, and addPackage of this closure in a timeout
OnScanSuccess ==
    /\ scanner # null
    /\ scanner.running
    /\ timer = null
    /\ \E raw \in Payloads :
          IF IsThrown(parseQrPayload(raw))
          THEN /\ scanned' = null
               /\ UNCHANGED << qrOpen, scanner, pkgName, pkgAddress, timer >>
          ELSE /\ scanned' = parseQrPayload(raw)
               /\ qrOpen' = FALSE
               /\ scanner' = null
               /\ pkgName' = parseQrPayload(raw).name
               /\ pkgAddress' = parseQrPayload(raw).address
               /\ timer' = [name |-> scanner.name, address |-> scanner.address]
    /\ op' = "handler"
    /\ arg' = << >>
    /\ ret' = << >>
    /\ UNCHANGED << origin, stops, km, link, fresh >>
    /\ UNCHANGED << prevOrder, loading, msg, geocoding, added >>
    /\ UNCHANGED refinerVars
    /\ UNCHANGED widgetVars

AppNext ==
    \/ TypeName
    \/ TypeAddress
    \/ AddPackage
    \/ TimerAddPackage
    \/ GeocodeReplies
    \/ RemovePackage
    \/ ClearAll
    \/ Optimize
    \/ UndoOptimize
    \/ OpenQR
    \/ StartScanner
    \/ CloseQR
    \/ OnScanSuccess

AppSpec == AppInit /\ [][AppNext]_vars

\* the handlers of the package list alone; the scanner reaches the list
\* only by calling addPackage
ListNext ==
    \/ TypeName
    \/ TypeAddress
    \/ AddPackage
    \/ GeocodeReplies
    \/ RemovePackage
    \/ ClearAll
    \/ Optimize
    \/ UndoOptimize

ListSpec == AppInit /\ [][ListNext]_vars

(* ------------------- the package manager (part_004) -------------------- *)
\* the coordinate of an item that has none: the tests of part_004 on lat and
\* lon are truthiness tests, which undefined and 0 fail alike
noCoord == 0

Priorities == {"normal", "alta"}

\* the package PackageForm.submit hands to onAdd
formPackage(id, priority, address) ==
    [id |-> id, lat |-> noCoord, lon |-> noCoord, priority |-> priority,
     status |-> "pendiente", address |-> address, qr |-> ""]

\* the package the onDetect handler builds from a reading
scannedPackage(id, text) ==
    [id |-> id, lat |-> noCoord, lon |-> noCoord, priority |-> "normal",
     status |-> "pendiente", address |-> "", qr |-> text]

\* a package as an earlier session left it in localStorage, geocoded
storedPackage(id, place, priority) ==
    [id |-> id, lat |-> place.lat, lon |-> place.lon, priority |-> priority,
     status |-> "pendiente", address |-> "Calle 2", qr |-> ""]

\* the lists useLocalStorage can find: packages of earlier sessions, each
\* one place further east than the one before
StoredLists == UNION {[1 .. n -> Priorities] : n \in 0 .. MaxStored}

MkStored(f) == [i \in 1 .. Len(f) |-> storedPackage(i, GridPoint(2 * i + 3), f[i])]

\* {...it, status: it.status==='entregado' ? 'pendiente' : 'entregado'}
toggled(it) ==
    [it EXCEPT !.status = IF it.status = "entregado" THEN "pendiente" ELSE "entregado"]

\* the origin after locateMe
ManagerOrigins == {GridPoint(3)}

ManagerInit ==
    /\ origin = null
    /\ stops \in {MkStored(f) : f \in StoredLists}
    /\ op = "init"
    /\ arg = << >>
    /\ ret = << >>
    /\ km = 0
    /\ link = noUrl("init")
    /\ fresh = FALSE
    /\ RefinerIdle
    /\ prevOrder = null
    /\ pkgName = ""
    /\ pkgAddress = ""
    /\ loading = FALSE
    /\ msg = ""
    /\ qrOpen = FALSE
    /\ scanner = null
    /\ timer = null
    /\ geocoding = << >>
    /\ added = MaxStored
    /\ scanned = null
    /\ WidgetsIdle

\* what every handler of the manager leaves alone
ManagerFrame ==
    /\ UNCHANGED << km, link, fresh >>
    /\ UNCHANGED refinerVars
    /\ UNCHANGED << prevOrder, pkgName, pkgAddress, loading, msg, qrOpen, scanner,
                    timer, geocoding, scanned >>
    /\ UNCHANGED << useBack, html5QrRef, instances, calls, opening >>
    /\ UNCHANGED << mounted, effects, lateResult >>

\* PackageForm.submit: onAdd of the render on screen, setItems([p, ...items])
SubmitPackage ==
    /\ added < MaxStored + MaxPackages
    /\ \E priority \in Priorities :
          stops' = << formPackage(added + 1, priority, "Calle 1") >> \o stops
    /\ added' = added + 1
    /\ op' = "handler"
    /\ arg' = << >>
    /\ UNCHANGED << origin, ret >>
    /\ UNCHANGED << useHighPriorityFirst, onDetect, geocodeRun >>
    /\ ManagerFrame

\* onToggleStatus(id) of a card
ToggleStatus ==
    /\ \E n \in 1 .. Len(stops) :
          stops' = [m \in 1 .. Len(stops) |->
                      IF stops[m].id = stops[n].id THEN toggled(stops[m]) ELSE stops[m]]
    /\ op' = "handler"
    /\ arg' = << >>
    /\ UNCHANGED << origin, ret, added >>
    /\ UNCHANGED << useHighPriorityFirst, onDetect, geocodeRun >>
    /\ ManagerFrame

\* onDelete(id) of a card
DeletePackage ==
    /\ \E n \in 1 .. Len(stops) :
          stops' = SelectSeq(stops, LAMBDA it : it.id # stops[n].id)
    /\ op' = "handler"
    /\ arg' = << >>
    /\ UNCHANGED << origin, ret, added >>
    /\ UNCHANGED << useHighPriorityFirst, onDetect, geocodeRun >>
    /\ ManagerFrame

\* Iniciar escaner: setRunning(true), and the effect hands the scanner a
\* callback that calls the onDetect of this render
ScannerStart ==
    /\ onDetect = null
    /\ onDetect' = [items |-> stops]
    /\ op' = "handler"
    /\ arg' = << >>
    /\ UNCHANGED << origin, stops, ret, added >>
    /\ UNCHANGED << useHighPriorityFirst, geocodeRun >>
    /\ ManagerFrame

\* Detener: setRunning(false), and the cleanup of the effect clears the scanner
ScannerStop ==
    /\ onDetect # null
    /\ onDetect' = null
    /\ op' = "handler"
    /\ arg' = << >>
    /\ UNCHANGED << origin, stops, ret, added >>
    /\ UNCHANGED << useHighPriorityFirst, geocodeRun >>
    /\ ManagerFrame

\* a reading of the running scanner: onDetect(text) of the render in which
\* the scanner was started, setItems([pkg, ...items])
ScannerDetect ==
    /\ onDetect # null
    /\ added < MaxStored + MaxPackages
    /\ stops' = << scannedPackage(added + 1, "QR") >> \o onDetect.items
    /\ added' = added + 1
    /\ op' = "onDetect"
    /\ arg' = << >>
    /\ UNCHANGED << origin, ret >>
    /\ UNCHANGED << useHighPriorityFirst, onDetect, geocodeRun >>
    /\ ManagerFrame

\* the checkbox Priorizar "alta"
SetHighPriorityFirst ==
    /\ useHighPriorityFirst' = ~useHighPriorityFirst
    /\ op' = "handler"
    /\ arg' = << >>
    /\ UNCHANGED << origin, stops, ret, added >>
    /\ UNCHANGED << onDetect, geocodeRun >>
    /\ ManagerFrame

\* locateMe, with the position found
LocateMe ==
    /\ origin = null
    /\ origin' \in ManagerOrigins
    /\ op' = "handler"
    /\ arg' = << >>
    /\ UNCHANGED << stops, ret, added >>
    /\ UNCHANGED << useHighPriorityFirst, onDetect, geocodeRun >>
    /\ ManagerFrame

\* optimize() of the RoutePlanner on the items of the render on screen
RoutePlannerOptimize ==
    /\ ret' = plannerOptimize(origin, stops, ret, useHighPriorityFirst)
    /\ op' = "plannerOptimize"
    /\ arg' = stops
    /\ UNCHANGED << origin, stops, added >>
    /\ UNCHANGED << useHighPriorityFirst, onDetect, geocodeRun >>
    /\ ManagerFrame

\* items.filter(p => !p.lat && !p.lon && p.address)
toGeocodeOf(items) ==
    SelectSeq(items, LAMBDA p : p.lat = 0 /\ p.lon = 0 /\ p.address # "")

\* Object.assign(p, {lat: g.lat, lon: g.lon})
assigned(p, g) == [p EXCEPT !.lat = g.lat, !.lon = g.lon]

\* items.map(it => it.id === p.id ? p : it)
mapped(items, p) ==
    [n \in 1 .. Len(items) |-> IF items[n].id = p.id THEN p ELSE items[n]]

\* geocodeMissing() up to its first await: items is the list of the render
\* on screen (one run at a time)
GeocodeMissing ==
    /\ geocodeRun = null
    /\ geocodeRun' = IF Len(toGeocodeOf(stops)) = 0 THEN null
                     ELSE [items |-> stops, toGeocode |-> toGeocodeOf(stops), i |-> 1]
    /\ op' = "handler"
    /\ arg' = << >>
    /\ UNCHANGED << origin, stops, ret, added >>
    /\ UNCHANGED << useHighPriorityFirst, onDetect >>
    /\ ManagerFrame

\* geocodeMissing() from the reply for toGeocode[i] to its next await: the
\* item, an object of the items of the run, is assigned the coordinates and
\* onItemsUpdate is given those items; a failed reply is only logged
GeocodeMissingReply ==
    /\ geocodeRun # null
    /\ \E res \in Replies(geocodeRun.toGeocode[geocodeRun.i].address) :
          LET p == geocodeRun.toGeocode[geocodeRun.i]
              g == geocodeAddress(res)
              items == IF IsThrown(g) THEN geocodeRun.items
                       ELSE mapped(geocodeRun.items, assigned(p, g))
          IN /\ stops' = IF IsThrown(g) THEN stops ELSE items
             /\ op' = IF IsThrown(g) THEN "handler" ELSE "onItemsUpdate"
             /\ geocodeRun' = IF geocodeRun.i = Len(geocodeRun.toGeocode) THEN null
                              ELSE [geocodeRun EXCEPT !.items = items, !.i = @ + 1]
    /\ arg' = << >>
    /\ UNCHANGED << origin, ret, added >>
    /\ UNCHANGED << useHighPriorityFirst, onDetect >>
    /\ ManagerFrame

\* the package list and the Scanner
ManagerNext ==
    \/ SubmitPackage
    \/ ToggleStatus
    \/ DeletePackage
    \/ ScannerStart
    \/ ScannerStop
    \/ ScannerDetect

ManagerSpec == ManagerInit /\ [][ManagerNext]_vars

\* the package list and the route of the RoutePlanner
PlannerNext ==
    \/ SubmitPackage
    \/ ToggleStatus
    \/ DeletePackage
    \/ SetHighPriorityFirst
    \/ LocateMe
    \/ RoutePlannerOptimize

PlannerSpec == ManagerInit /\ [][PlannerNext]_vars

\* the package list and geocodeMissing of the RoutePlanner
GeocodeNext ==
    \/ SubmitPackage
    \/ ToggleStatus
    \/ DeletePackage
    \/ GeocodeMissing
    \/ GeocodeMissingReply

GeocodeSpec == ManagerInit /\ [][GeocodeNext]_vars

(* ---------------- the scanner of the modal, call by call --------------- *)
\* an async call in flight: the function, the useBack of the render whose
\* closure it is, the useBack the header shows once the click is rendered,
\* the await the call is at and the instance it has created (0 for none)
call(fn, back, shown, at) ==
    [fn |-> fn, useBack |-> back, shown |-> shown, pc |-> at, scanner |-> 0]

\* the states stop() can leave an Html5Qrcode instance in: a scanning one is
\* stopped, one that is still starting is stopped or stop() throws, and
\* otherwise stop() throws; the code catches what it throws
stopOutcomes(state) ==
    IF state = "scanning" THEN {"stopped"}
    ELSE IF state = "starting" THEN {"starting", "stopped"}
    ELSE {state}

\* the instances after the try { await html5QrRef.current.stop() } of a call
afterStop(ref, outcome) ==
    IF ref = 0 THEN instances ELSE [instances EXCEPT ![ref].state = outcome]

\* what every step of the scanner leaves alone
CameraFrame ==
    /\ UNCHANGED << origin, stops, engineVars >>
    /\ UNCHANGED refinerVars
    /\ UNCHANGED << prevOrder, pkgName, pkgAddress, loading, msg, scanner, timer,
                    geocoding, added, scanned >>
    /\ UNCHANGED << useHighPriorityFirst, onDetect, geocodeRun >>
    /\ UNCHANGED << mounted, effects, lateResult >>

\* openQR() up to await ensureCameraPermission()
OpenQRCall ==
    /\ ~qrOpen
    /\ Len(opening) + Len(calls) < MaxCalls
    /\ opening' = Append(opening, [useBack |-> useBack])
    /\ UNCHANGED << qrOpen, useBack, html5QrRef, instances, calls >>
    /\ CameraFrame

\* openQR() after the await: the alert when the camera is refused, else
\* setQrOpen(true) and startScanner at the next frame, which returns at once
\* when the modal is not rendered yet (el is null)
OpenQRGranted ==
    /\ Len(opening) > 0
    /\ opening' = Tail(opening)
    /\ \E outcome \in {"refused", "el is null", "el"} :
          /\ qrOpen' = IF outcome = "refused" THEN qrOpen ELSE TRUE
          /\ calls' = IF outcome = "el"
                      THEN Append(calls, call("startScanner", opening[1].useBack,
                                              opening[1].useBack, "import"))
                      ELSE calls
    /\ UNCHANGED << useBack, html5QrRef, instances >>
    /\ CameraFrame

\* Cambiar camara: setUseBack(v => !v) and startScanner() of the render on
\* screen, up to await import("html5-qrcode")
CambiarCamara ==
    /\ qrOpen
    /\ Len(opening) + Len(calls) < MaxCalls
    /\ useBack' = ~useBack
    /\ calls' = Append(calls, call("startScanner", useBack, ~useBack, "import"))
    /\ UNCHANGED << qrOpen, html5QrRef, instances, opening >>
    /\ CameraFrame

\* startScanner() from the import to the next await: stop() of the instance
\* in html5QrRef, if any, else getCameras()
StartScannerImported ==
    /\ \E c \in 1 .. Len(calls) :
          /\ calls[c].fn = "startScanner"
          /\ calls[c].pc = "import"
          /\ IF html5QrRef = 0
             THEN /\ calls' = [calls EXCEPT ![c].pc = "getCameras"]
                  /\ UNCHANGED instances
             ELSE /\ calls' = [calls EXCEPT ![c].pc = "stop"]
                  /\ \E outcome \in stopOutcomes(instances[html5QrRef].state) :
                        instances' = afterStop(html5QrRef, outcome)
    /\ UNCHANGED << qrOpen, useBack, html5QrRef, opening >>
    /\ CameraFrame

\* startScanner() after stop() and clear(): html5QrRef.current = null, then
\* getCameras()
StartScannerCleaned ==
    /\ \E c \in 1 .. Len(calls) :
          /\ calls[c].fn = "startScanner"
          /\ calls[c].pc = "stop"
          /\ calls' = [calls EXCEPT ![c].pc = "getCameras"]
    /\ html5QrRef' = 0
    /\ UNCHANGED << qrOpen, useBack, instances, opening >>
    /\ CameraFrame

\* startScanner() from the camera list to scanner.start(): the camera is
\* chosen by the useBack of the closure; new Html5Qrcode(el.id) throws when
\* the modal, and with it the element, is gone
StartScannerGotCameras ==
    /\ \E c \in 1 .. Len(calls) :
          /\ calls[c].fn = "startScanner"
          /\ calls[c].pc = "getCameras"
          /\ IF qrOpen
             THEN /\ instances' = Append(instances, [state |-> "starting",
                                                     back |-> calls[c].useBack,
                                                     shown |-> calls[c].shown])
                  /\ html5QrRef' = Len(instances) + 1
                  /\ calls' = [calls EXCEPT ![c].pc = "start",
                                            ![c].scanner = Len(instances) + 1]
             ELSE /\ calls' = [calls EXCEPT ![c].pc = "thrown"]
                  /\ UNCHANGED << instances, html5QrRef >>
    /\ UNCHANGED << qrOpen, useBack, opening >>
    /\ CameraFrame

\* scanner.start() settles: the instance scans, unless a stop() got through
\* while it was starting
StartScannerStarted ==
    /\ \E c \in 1 .. Len(calls) :
          /\ calls[c].fn = "startScanner"
          /\ calls[c].pc = "start"
          /\ calls' = [calls EXCEPT ![c].pc = "done"]
          /\ instances' = [instances EXCEPT ![calls[c].scanner].state =
                              IF @ = "starting" THEN "scanning" ELSE @]
    /\ UNCHANGED << qrOpen, useBack, html5QrRef, opening >>
    /\ CameraFrame

\* closeQR() of the Cerrar button: with an instance in html5QrRef stop() up
\* to its await, else setQrOpen(false) at once
CloseQRCall ==
    /\ qrOpen
    /\ Len(opening) + Len(calls) < MaxCalls
    /\ IF html5QrRef = 0
       THEN /\ qrOpen' = FALSE
            /\ calls' = Append(calls, call("closeQR", useBack, useBack, "done"))
            /\ UNCHANGED instances
       ELSE /\ calls' = Append(calls, call("closeQR", useBack, useBack, "stop"))
            /\ \E outcome \in stopOutcomes(instances[html5QrRef].state) :
                  instances' = afterStop(html5QrRef, outcome)
            /\ UNCHANGED qrOpen
    /\ UNCHANGED << useBack, html5QrRef, opening >>
    /\ CameraFrame

\* closeQR() after stop() and clear(): html5QrRef.current = null and
\* setQrOpen(false)
CloseQRDone ==
    /\ \E c \in 1 .. Len(calls) :
          /\ calls[c].fn = "closeQR"
          /\ calls[c].pc = "stop"
          /\ calls' = [calls EXCEPT ![c].pc = "done"]
    /\ html5QrRef' = 0
    /\ qrOpen' = FALSE
    /\ UNCHANGED << useBack, instances, opening >>
    /\ CameraFrame

CameraNext ==
    \/ OpenQRCall
    \/ OpenQRGranted
    \/ CambiarCamara
    \/ StartScannerImported
    \/ StartScannerCleaned
    \/ StartScannerGotCameras
    \/ StartScannerStarted
    \/ CloseQRCall
    \/ CloseQRDone

CameraSpec == AppInit /\ [][CameraNext]_vars

(* ------------------------------ QROverlay ------------------------------ *)
\* the cleanup of the effect: disposed = true, the pending frame cancelled,
\* and the stream stopped if the run has got one
cleanup(run) ==
    [run EXCEPT !.disposed = TRUE,
                !.pc = IF @ = "raf" THEN "done" ELSE @,
                !.stream = IF @ = "live" THEN "stopped" ELSE @]

\* the runs after setQrOpen(false) of the parent: the overlay, when it is
\* mounted, is unmounted and the cleanup of its run is called
unmounted(runs) ==
    IF mounted THEN [runs EXCEPT ![Len(runs)] = cleanup(@)] ELSE runs

\* setQrOpen(true): the overlay is mounted and its effect calls start(), up
\* to await getUserMedia(...)
OverlayMount ==
    /\ ~mounted
    /\ Len(effects) < MaxMounts
    /\ mounted' = TRUE
    /\ effects' = Append(effects, [disposed |-> FALSE, stream |-> "none", pc |-> "getUserMedia"])
    /\ UNCHANGED lateResult
    /\ UNCHANGED << origin, stops, engineVars >>
    /\ UNCHANGED refinerVars
    /\ UNCHANGED appVars
    /\ UNCHANGED << useHighPriorityFirst, onDetect, geocodeRun >>
    /\ UNCHANGED << useBack, html5QrRef, instances, calls, opening >>

\* Cerrar: onCancel, setQrOpen(false)
OverlayCancel ==
    /\ mounted
    /\ mounted' = FALSE
    /\ effects' = unmounted(effects)
    /\ UNCHANGED lateResult
    /\ UNCHANGED << origin, stops, engineVars >>
    /\ UNCHANGED refinerVars
    /\ UNCHANGED appVars
    /\ UNCHANGED << useHighPriorityFirst, onDetect, geocodeRun >>
    /\ UNCHANGED << useBack, html5QrRef, instances, calls, opening >>

\* getUserMedia settles: with a stream, start() returns if disposed and else
\* awaits play(); refused, it alerts and calls onCancel
GetUserMediaSettles ==
    /\ \E e \in 1 .. Len(effects) : \E granted \in BOOLEAN :
          /\ effects[e].pc = "getUserMedia"
          /\ IF granted
             THEN /\ effects' = [effects EXCEPT ![e].stream = "live",
                                                ![e].pc = IF effects[e].disposed THEN "done" ELSE "play"]
                  /\ UNCHANGED mounted
             ELSE /\ effects' = unmounted([effects EXCEPT ![e].pc = "done"])
                  /\ mounted' = FALSE
    /\ UNCHANGED lateResult
    /\ UNCHANGED << origin, stops, engineVars >>
    /\ UNCHANGED refinerVars
    /\ UNCHANGED appVars
    /\ UNCHANGED << useHighPriorityFirst, onDetect, geocodeRun >>
    /\ UNCHANGED << useBack, html5QrRef, instances, calls, opening >>

\* play() settles, the detector is built and the first frame is requested
PlaySettles ==
    /\ \E e \in 1 .. Len(effects) :
          /\ effects[e].pc = "play"
          /\ effects' = [effects EXCEPT ![e].pc = "raf"]
    /\ UNCHANGED << mounted, lateResult >>
    /\ UNCHANGED << origin, stops, engineVars >>
    /\ UNCHANGED refinerVars
    /\ UNCHANGED appVars
    /\ UNCHANGED << useHighPriorityFirst, onDetect, geocodeRun >>
    /\ UNCHANGED << useBack, html5QrRef, instances, calls, opening >>

\* tick() at the frame: it returns if disposed, else awaits detect()
Tick ==
    /\ \E e \in 1 .. Len(effects) :
          /\ effects[e].pc = "raf"
          /\ effects' = [effects EXCEPT ![e].pc = IF effects[e].disposed THEN "done" ELSE "detect"]
    /\ UNCHANGED << mounted, lateResult >>
    /\ UNCHANGED << origin, stops, engineVars >>
    /\ UNCHANGED refinerVars
    /\ UNCHANGED appVars
    /\ UNCHANGED << useHighPriorityFirst, onDetect, geocodeRun >>
    /\ UNCHANGED << useBack, html5QrRef, instances, calls, opening >>

\* detect() settles: with a code onResult is called, and the parent closes
\* the overlay; without one the next frame is requested
DetectSettles ==
    /\ \E e \in 1 .. Len(effects) : \E found \in BOOLEAN :
          /\ effects[e].pc = "detect"
          /\ IF found
             THEN /\ effects' = unmounted([effects EXCEPT ![e].pc = "done"])
                  /\ mounted' = FALSE
                  /\ lateResult' = (lateResult \/ effects[e].disposed)
             ELSE /\ effects' = [effects EXCEPT ![e].pc = "raf"]
                  /\ UNCHANGED << mounted, lateResult >>
    /\ UNCHANGED << origin, stops, engineVars >>
    /\ UNCHANGED refinerVars
    /\ UNCHANGED appVars
    /\ UNCHANGED << useHighPriorityFirst, onDetect, geocodeRun >>
    /\ UNCHANGED << useBack, html5QrRef, instances, calls, opening >>

OverlayNext ==
    \/ OverlayMount
    \/ OverlayCancel
    \/ GetUserMediaSettles
    \/ PlaySettles
    \/ Tick
    \/ DetectSettles

OverlaySpec == AppInit /\ [][OverlayNext]_vars

(* ------------------------- shared vocabulary --------------------------- *)
\* a is b with its elements in some order, none twice, none missing
IsPermutation(a, b) ==
    /\ Len(a) = Len(b)
    /\ \A i \in 1 .. Len(b) : Cardinality({j \in 1 .. Len(a) : a[j] = b[i]}) = 1

\* the point the path is at before it goes to tour[j]
Before(o, tour, j) == IF j = 1 THEN o ELSE tour[j - 1]

RECURSIVE PathLength(_)
\* the sum of the distances between consecutive points of a path
PathLength(path) ==
    IF Len(path) < 2 THEN 0
    ELSE dist(path[1], path[2]) + PathLength(Tail(path))

IsUrl(l) == "destination" \in DOMAIN l

\* the stops a request carries, in order
StopsOfRequest(l) == l.waypoints \o << l.destination >>

\* the requests built for the provider, each by the stops it carries
Batches == IF IsUrl(link) THEN << StopsOfRequest(link) >> ELSE << >>

ParamsOf(list) == [i \in 1 .. Len(list) |-> param(list[i])]

CeilDiv(n, d) == (n + d - 1) \div d

OptimizerOps == {"nearestNeighbor", "twoOpt", "twoOptDelta", "optimizeRoute", "plannerRoute"}

LinkOps == {"googleMapsDirLink", "googleMapsDirLink_000", "buildGoogleMapsLink",
            "googleMapsDirLink_004", "openInGoogleMaps_003"}

\* path with path[i+1 .. k] reversed, positions counted from 0
ReversedBetween(path, i, k) ==
    [j \in 1 .. Len(path) |-> IF j > i + 1 /\ j <= k + 1 THEN path[i + k + 3 - j] ELSE path[j]]

\* the path the refiner works on: the origin and the tour as it stands
TourPath == IF op = "twoOptDelta" THEN best ELSE << origin >> \o best

\* the path of the tour returned
ReturnedPath == << origin >> \o ret

\* the acceptance threshold in metres: 1e-9 km is under a metre, 0.001 km is one
Threshold == IF op = "twoOptDelta" THEN 1 ELSE 0

(* ------------------------------- claims -------------------------------- *)
\* C1: the tour returned by the optimizer (nearest neighbour, 2-opt, and the
\* two together, in both variants) is a permutation of the stops it was
\* given: same stops, same count, none duplicated, none omitted.
C1_TourIsPermutation == op \in OptimizerOps => IsPermutation(ret, arg)

\* C1 witness: the optimizer reordered a list in which two stops share
\* their coordinates
C1_Witness ==
    /\ op \in {"optimizeRoute", "plannerRoute"}
    /\ ret # arg
    /\ \E i, j \in 1 .. Len(arg) : i < j /\ LatLon(arg[i]) = LatLon(arg[j])

\* C2: the one-way path length of the tour the 2-opt refiner returns is at
\* most that of the tour it was given, in both twoOpt variants.
C2_RefineNeverLonger ==
    op \in {"twoOpt", "twoOptDelta"} =>
        routeDistance(origin, ret) <= routeDistance(origin, arg)

\* C2 witness: a refinement that made the tour strictly shorter
C2_Witness ==
    /\ op \in {"twoOpt", "twoOptDelta"}
    /\ routeDistance(origin, ret) < routeDistance(origin, arg)

\* C3: the stops handed to the navigation provider, batch by batch, are
\* exactly the tour: none dropped, none reordered.
C3_LinkCarriesWholeTour ==
    (op \in LinkOps /\ origin # null /\ IsUrl(link)) => StopsOfRequest(link) = ParamsOf(arg)

\* C4: a request carries at most MAX_WP - 1 stops, so that origin plus stops
\* is at most MAX_WP points.
C4_RequestWithinLimit ==
    (op \in LinkOps /\ origin # null /\ IsUrl(link)) => Len(StopsOfRequest(link)) <= MAX_WP - 1

\* C5: n stops give ceil(n / (MAX_WP - 1)) batches, each but the last of
\* MAX_WP - 1 stops (10 stops: a batch of 8 and a batch of 2).
C5_BatchCount ==
    (op \in LinkOps /\ origin # null) =>
        /\ Len(Batches) = CeilDiv(Len(arg), MAX_WP - 1)
        /\ \A b \in 1 .. Len(Batches) - 1 : Len(Batches[b]) = MAX_WP - 1

\* C6: the estimated distance is the sum of the distances between the
\* consecutive points of origin, tour[0], ..., tour[n-1], with no return
\* leg, also when a stop has latitude or longitude 0; 0 for no stops.
C6_EstimateIsPathSum ==
    (op \in {"routeDistance", "distanceEffect"} /\ origin # null) =>
        km = PathLength(<< origin >> \o arg)

\* C7: in the tour of the nearest-neighbour constructor every stop is at
\* minimum distance from the point before it (the origin for the first)
\* among the stops not yet placed, for lists of any length.
C7_GreedyNearest ==
    (op \in {"nearestNeighbor", "optimizeOrder"} /\ origin # null) =>
        \A j \in 1 .. Len(ret) : \A m \in j .. Len(ret) :
            dist(Before(origin, ret, j), ret[j]) <= dist(Before(origin, ret, j), ret[m])

\* C8: among the remaining stops at the same minimum distance the
\* nearest-neighbour constructor takes the one that comes first in the
\* input list, at every step.
C8_TieBreakEarliestIndex ==
    op = "nearestNeighbor" =>
        \A j \in 1 .. Len(ret) : \A m \in j + 1 .. Len(ret) :
            dist(Before(origin, ret, j), ret[m]) = dist(Before(origin, ret, j), ret[j])
                => ret[j].id < ret[m].id

\* C8 witness: a tie after the first step, between stops that the
\* constructor moved from their input places
C8_Witness ==
    /\ op = "nearestNeighbor"
    /\ ret # arg
    /\ \E j \in 2 .. Len(ret) : \E m \in j + 1 .. Len(ret) :
           dist(ret[j - 1], ret[m]) = dist(ret[j - 1], ret[j])

\* C9: the distance is symmetric, never negative, and 0 from a point to
\* itself.
C9_DistanceSymmetric ==
    op = "haversine" =>
        /\ km = haversine(arg[1], origin)
        /\ km >= 0
        /\ (LatLon(arg[1]) = LatLon(origin) => km = 0)
        /\ haversine(origin, origin) = 0

\* C9 witness: a distance between two points of different latitude and
\* longitude
C9_Witness ==
    /\ op = "haversine"
    /\ arg[1].lat # origin.lat
    /\ arg[1].lon # origin.lon
    /\ km > 0

\* C10: the request has the origin as its origin, the last stop of the list
\* as its destination and the other stops, in order, as its waypoints.
C10_LinkShape ==
    (op \in LinkOps /\ origin # null /\ Len(arg) > 0) =>
        /\ IsUrl(link)
        /\ link.origin = param(origin)
        /\ link.destination = param(arg[Len(arg)])
        /\ link.waypoints = ParamsOf(SubSeq(arg, 1, Len(arg) - 1))

\* the calls of the engine: optimisation, distance estimate, link building
EngineOps == {"optimizeRoute", "optimizeOrder", "routeDistance", "distanceEffect"} \cup LinkOps

\* the call ended in an error thrown to its caller
Rejected == link = noUrl("TypeError")

\* C12: a call of the engine with a non-empty stop list and a missing origin
\* is rejected as an error; it returns no result (the stops unchanged, a
\* distance of 0, a link with an empty origin).
C12_MissingOriginRejected ==
    (op \in EngineOps /\ origin = null /\ Len(arg) > 0) => Rejected

\* C13: for every origin and tour the refiner returns: the while loop is
\* left after finitely many passes, and every accepted reversal lowers the
\* length of the path by more than the threshold.
C13_RefinerTerminates ==
    /\ <>(pc = "returned")
    /\ [][best' # best /\ pc = "forK" =>
             PathLength(TourPath') + Threshold < PathLength(TourPath)]_vars

\* C13 witness: the refiner returned after a pass that accepted a reversal
C13_Witness ==
    /\ pc = "returned"
    /\ Len(arg) >= 3
    /\ ret # arg

C15_DegenerateTours ==
    /\ (op \in {"optimizeRoute", "plannerOptimize"} /\ origin # null /\ Len(arg) <= 1)
           => ret = arg
    /\ (op \in {"routeDistance", "distanceEffect"} /\ Len(arg) = 0) => km = 0

\* C16: once a reversal has been applied the scan restarts from the first
\* pair: no further pair of the same pass is evaluated against the changed
\* path.
C16_RestartAfterReversal == ~scannedOn

\* C17: every pair of edges (i,i+1), (k,k+1) with 0 <= i < k <= n-2 of the
\* path origin, tour[0], ..., tour[n-1] is evaluated, i = 0 with the edge
\* origin -> tour[0] included: in the tour returned no reversal between such
\* a pair shortens the path by more than the threshold.
C17_FirstEdgeScanned ==
    pc = "returned" =>
        \A i \in 0 .. Len(ret) - 3 : \A k \in i + 1 .. Len(ret) - 2 :
            PathLength(ReversedBetween(ReturnedPath, i, k)) + Threshold
                >= PathLength(ReturnedPath)

\* C18: the tour returned is a local optimum for the pairs scanned (the
\* first edge of a pair from tour[0] -> tour[1] on, the second up to the
\* last edge): no reversal between a scanned pair shortens the path by more
\* than the threshold.
C18_LocalOptimum ==
    pc = "returned" =>
        \A i \in 1 .. Len(ret) - 2 : \A k \in i + 1 .. Len(ret) - 1 :
            PathLength(ReversedBetween(ReturnedPath, i, k)) + Threshold
                >= PathLength(ReturnedPath)

\* C18 witness: a tour returned after the refiner changed it, in which one
\* stop is visited twice
C18_Witness ==
    /\ pc = "returned"
    /\ ret # arg
    /\ \E i, j \in 1 .. Len(ret) : i < j /\ LatLon(ret[i]) = LatLon(ret[j])

\* C19: after optimize followed at once by undoOptimize the package list is
\* the list as it was before optimize, and no saved order remains.
C19_UndoRestoresOrder ==
    op = "optimize;undoOptimize" => (stops = arg /\ prevOrder = null)

\* C19 witness: the undo of an optimize that had changed the order
C19_Witness ==
    /\ op = "optimize;undoOptimize"
    /\ ret # arg
    /\ stops = arg
    /\ prevOrder = null

\* C11: no stop with a latitude outside [-90,90] or a longitude outside
\* [-180,180] is ever stored in the stop list: it is rejected when it is
\* constructed.
C11_CoordinatesValidated ==
    \A n \in 1 .. Len(stops) :
        /\ stops[n].lat >= -90 /\ stops[n].lat <= 90
        /\ stops[n].lon >= -180 /\ stops[n].lon <= 180

\* C20: the addPackage call that the scan handler schedules geocodes the
\* scanned address under the scanned name, not the form values from before
\* the scan.
C20_ScanAddsScanned ==
    [][(timer # null /\ timer' = null) =>
          /\ Len(geocoding') = Len(geocoding) + 1
          /\ geocoding'[Len(geocoding')] = scanned]_vars

\* the packages of a list, without their order
PackageSet(list) == {list[n] : n \in 1 .. Len(list)}

\* C23: undoOptimize leaves the set of packages as it was just before the
\* undo: it takes away no package added since the last optimize and brings
\* back none removed since.
C23_UndoKeepsPackageSet ==
    [][(prevOrder # null /\ prevOrder' = null) =>
          PackageSet(stops') = PackageSet(stops)]_vars

\* C21: a reading of the running scanner adds one package to the list as it
\* is: the packages added since the scanner was started stay, those deleted
\* since stay away.
C21_ScanAddsToCurrentList ==
    [][op' = "onDetect" => stops' = << stops'[1] >> \o stops]_vars

\* C22: with the option Priorizar "alta" on, every stop of priority 'alta'
\* of the route optimize returns comes before every stop of another
\* priority.
C22_AltaFirst ==
    (op = "plannerOptimize" /\ useHighPriorityFirst) =>
        \A i \in 1 .. Len(ret) : \A j \in 1 .. Len(ret) :
            (i < j /\ IsAlta(ret[j])) => IsAlta(ret[i])

\* a list that differs from another in coordinates only
SameButCoordinates(before, after) ==
    /\ Len(after) = Len(before)
    /\ \A n \in 1 .. Len(before) :
          [after[n] EXCEPT !.lat = before[n].lat, !.lon = before[n].lon] = before[n]

\* C27: an update of geocodeMissing only adds coordinates to the items: the
\* packages the user added, deleted or toggled during the run stay so.
C27_GeocodeOnlyAddsCoordinates ==
    [][op' = "onItemsUpdate" => SameButCoordinates(stops, stops')]_vars

\* C24: whenever the modal is closed and no openQR is pending, no scanner
\* instance is running and html5QrRef is null.
C24_ClosedModalNoScanner ==
    (~qrOpen /\ Len(opening) = 0) =>
        /\ html5QrRef = 0
        /\ \A n \in 1 .. Len(instances) : instances[n].state # "scanning"

\* C25: a scanner restarted by Cambiar camara faces the way the header shows
\* after the toggle, never the way useBack said before it.
C25_RestartFacesShown ==
    \A n \in 1 .. Len(instances) : instances[n].back = instances[n].shown

\* C26: once the overlay is unmounted every camera stream it acquired is
\* stopped, and onResult is not called after the unmount.
C26_UnmountedOverlayReleased ==
    /\ \A e \in 1 .. Len(effects) :
          effects[e].disposed => effects[e].stream # "live"
    /\ ~lateResult

=============================================================================
